---- MODULE Spec2Model ----
(***************************************************************************)
(* Model of the generate-execute-repair pipeline of DATA_ANALYST_AGENT:    *)
(* analyzer.analyze, analyzer.run_code_and_capture_output and the HTTP     *)
(* handler app.root.  Texts (model responses, programs, captured output)  *)
(* are sequences of tokens; files of the working directory are shared by  *)
(* every request because the code names them by fixed relative paths.     *)
(***************************************************************************)
EXTENDS Integers, Sequences, FiniteSets, TLC

\* ------------------------------------------------------------------ bounds
MaxTextLen == 3
MaxCalls == 2
MaxItems == 2
MaxCols == 2

\* ------------------------------------------------------- program constants
Timeout == 60
MaxAttempts == 2

\* ------------------------------------------------------------------ tokens
\* "FP" is the opening fence ```python, "F" a bare fence ```, "imp" the word
\* import, "impt" a word that merely contains it (important), "def" the text
\* "def ", "w" any other word, "nl" white space.
Tokens == {"FP", "F", "imp", "impt", "def", "w", "nl"}
FenceTokens == {"FP", "F"}
ImportTokens == {"imp", "impt"}
DefTokens == {"def"}

RECURSIVE SeqsUpTo(_, _)
SeqsUpTo(S, n) ==
    IF n = 0 THEN {<<>>}
    ELSE LET shorter == SeqsUpTo(S, n - 1)
         IN  shorter \cup {Append(s, t) : s \in {x \in shorter : Len(x) = n - 1}, t \in S}

SetMin(S) == CHOOSE x \in S : \A y \in S : x <= y
SetMax(S) == CHOOSE x \in S : \A y \in S : x >= y

\* str.strip(): leading and trailing white space removed
Strip(s) ==
    LET keep == {i \in 1..Len(s) : s[i] # "nl"}
    IN  IF keep = {} THEN <<>> ELSE SubSeq(s, SetMin(keep), SetMax(keep))

\* re.search(r"```python(.*?)```", text, re.DOTALL): the leftmost opening
\* fence that is followed by any fence, and lazily the nearest such fence
\* (the text ```python itself begins with ```).
MatchStarts(text) ==
    {i \in 1..Len(text) :
        /\ text[i] = "FP"
        /\ \E j \in (i + 1)..Len(text) : text[j] \in FenceTokens}
HasMatch(text) == MatchStarts(text) # {}
MatchGroupGreedy(text) ==
    LET i == SetMin(MatchStarts(text))
        j == SetMax({k \in (i + 1)..Len(text) : text[k] \in FenceTokens})
    IN  SubSeq(text, i + 1, j - 1)
MatchGroup(text) ==
    LET i == SetMin(MatchStarts(text))
        j == SetMin({k \in (i + 1)..Len(text) : text[k] \in FenceTokens})
    IN  SubSeq(text, i + 1, j - 1)

\* "import" in full_text or "def " in full_text
LooksLikeCodeAlways(text) == TRUE
LooksLikeCode(text) ==
    \E i \in 1..Len(text) : text[i] \in ImportTokens \cup DefTokens

\* ------------------------------------------------------------ payload texts
MsgReadFailed == "Failed to read questions file"
MsgMalformedTwice == "Gemini failed twice due to malformed tool parameters"
MsgQueryFailed == "Gemini query failed"
MsgNoCode == "No usable code returned by Gemini"
MsgWriteFailed == "Failed to write code file"
MsgTimeout == "Code execution timed out"
MsgExecFailed == "Code execution failed"
MsgNoOutput == "Code executed, but no textual output"
ImagePrefix == "data:image/png;base64,"

TextBlock(tokens) == [type |-> "text", output |-> tokens]
ImageBlock(tokens) == [type |-> "image", output |-> <<ImagePrefix>> \o tokens]

ReadFailedPayload == <<TextBlock(<<MsgReadFailed, "OSError">>)>>
MalformedTwicePayload == <<TextBlock(<<MsgMalformedTwice>>)>>
QueryFailedPayload == <<TextBlock(<<MsgQueryFailed, "transport error">>)>>
NoCodePayloadEmpty == <<>>
NoCodePayload == <<TextBlock(<<MsgNoCode>>)>>
WriteFailedPayload == <<TextBlock(<<MsgWriteFailed, "OSError">>)>>
TimeoutPayload == <<TextBlock(<<MsgTimeout>>)>>
ExecFailedPayload == <<TextBlock(<<MsgExecFailed, "OSError">>)>>

\* ----------------------------------------------------------------- requests
\* A slot is one worker process serving one call.
Reqs == {"r1", "r2"}

ToolNames == {"scrape_website", "get_relevant_data", "unknown_tool"}
ToolFaults == {"none", "bad_json", "bad_params", "collab_error"}
ToolCalls == [name : ToolNames, fault : ToolFaults]

NoFile == [exists |-> FALSE, owner |-> "none", content |-> <<>>]
File(owner, content) == [exists |-> TRUE, owner |-> owner, content |-> content]

NoResponse == [textAttr |-> "absent", text |-> <<>>, hasCalls |-> FALSE, calls |-> <<>>]
NoBehaviour ==
    [dur |-> 0, stdout |-> <<>>, stderr |-> <<>>, plot |-> "none", rc |-> 0]

\* req, fs: the calls and the working directory.  coerce and sanit hold the
\* successive values of the two pure functions studied on their own:
\* the response body under json.dumps(..., default=_json_default), and a tool
\* call under sanitize_tool_params.  tables holds the successive column lists
\* of one DataFrame under rename_film_column.
VARIABLES req, fs, coerce, sanit, tables
vars == <<req, fs, coerce, sanit, tables>>

InitReq ==
    [pc |-> "idle", entry |-> "none", uploads |-> {}, attempt |-> 0,
     queries |-> <<>>, amended |-> FALSE, response |-> NoResponse,
     callIdx |-> 1, toolLog |-> <<>>, code |-> <<>>, via |-> "pending",
     ran |-> NoFile, beh |-> NoBehaviour, output |-> <<>>, execs |-> <<>>,
     image |-> <<>>, payload |-> <<>>, raised |-> "none",
     status |-> 0, body |-> <<>>, figure |-> "none"]

\* src/temp_code.py is checked in: the working directory starts with it.
Init ==
    /\ req = [r \in Reqs |-> InitReq]
    /\ fs = [temp_code |-> File("repo", <<"imp", "w">>), gpt_response |-> NoFile,
             scatterplot |-> NoFile, workdirs |-> {}]
    /\ coerce = <<>>
    /\ sanit = <<>>
    /\ tables = <<>>

Set(r, changes) ==
    /\ req' = [req EXCEPT ![r] = changes]
    /\ UNCHANGED <<coerce, sanit, tables>>

\* ------------------------------------------------------------ except clauses
\* SystemExit derives from BaseException: "except Exception" lets it pass.
ExceptionKinds == {"StopCandidateException", "Exception", "SystemExit"}
IsException(kind) == kind # "SystemExit"

\* analyze, lines 148-160: the two except clauses around query_gemini
QueryErrorCaughtOnlyStop(kind) == kind = "StopCandidateException"
QueryErrorCaught(kind) == kind = "StopCandidateException" \/ IsException(kind)

\* lines 148-152: retry only the malformed-tool-call signal, only on attempt 0
IsRetryableAnyError(kind, attempt) == attempt = 0
IsRetryable(kind, attempt) == kind = "StopCandidateException" /\ attempt = 0

QueryFailurePayload(kind) ==
    IF kind = "StopCandidateException" THEN MalformedTwicePayload
    ELSE QueryFailedPayload

\* ---------------------------------------------------------------- analyze
\* lines 135-141: open and read the questions file
AnalyzeReadQuestions(r) ==
    /\ req[r].pc = "idle"
    /\ UNCHANGED fs
    /\ \E ok \in BOOLEAN :
         IF ok
         THEN Set(r, [req[r] EXCEPT !.pc = "query", !.entry = "analyze",
                                     !.attempt = 0])
         ELSE Set(r, [req[r] EXCEPT !.pc = "returned", !.entry = "analyze",
                                     !.payload = ReadFailedPayload])

\* lines 144-147: query_gemini returns a response; break
QueryOk(r, responses) ==
    /\ req[r].pc = "query"
    /\ req[r].attempt < MaxAttempts
    /\ UNCHANGED fs
    /\ \E resp \in responses :
         Set(r, [req[r] EXCEPT !.pc = "save", !.response = resp,
                                !.queries = Append(@, "ok")])

\* lines 148-160: query_gemini raises
QueryFails(r) ==
    /\ req[r].pc = "query"
    /\ req[r].attempt < MaxAttempts
    /\ UNCHANGED fs
    /\ \E kind \in {"StopCandidateException", "Exception"} :
         IF ~QueryErrorCaught(kind)
         THEN Set(r, [req[r] EXCEPT !.pc = "raised", !.raised = kind,
                                     !.queries = Append(@, kind)])
         ELSE IF IsRetryable(kind, req[r].attempt)
         THEN Set(r, [req[r] EXCEPT !.attempt = @ + 1, !.amended = TRUE,
                                     !.queries = Append(@, kind)])
         ELSE Set(r, [req[r] EXCEPT !.pc = "returned",
                                     !.payload = QueryFailurePayload(kind),
                                     !.queries = Append(@, kind)])

\* lines 162-168: save the response text to gpt_response.json (a failure is
\* only logged)
SaveResponse(r) ==
    /\ req[r].pc = "save"
    /\ Set(r, [req[r] EXCEPT !.pc = "tools"])
    /\ \E ok \in BOOLEAN :
         IF ok
         THEN fs' = [fs EXCEPT !.gpt_response = File(r, req[r].response.text)]
         ELSE UNCHANGED fs

\* ------------------------------------------------------------- tool calls
\* lines 174-181: what handling one tool call comes to.  scrape_website is a
\* coroutine function: calling it binds the arguments and runs no body.
ToolOutcomeStrict(call) ==
    IF call.fault = "bad_json" THEN "failed"
    ELSE IF call.name \notin {"scrape_website", "get_relevant_data"} THEN "failed"
    ELSE IF call.fault = "bad_params" THEN "failed"
    ELSE IF call.name = "get_relevant_data" /\ call.fault = "collab_error" THEN "failed"
    ELSE "invoked"
ToolOutcome(call) ==
    IF call.fault = "bad_json" THEN "failed"
    ELSE IF call.name \notin {"scrape_website", "get_relevant_data"} THEN "ignored"
    ELSE IF call.fault = "bad_params" THEN "failed"
    ELSE IF call.name = "get_relevant_data" /\ call.fault = "collab_error" THEN "failed"
    ELSE "invoked"

\* line 182: except Exception around one tool call
ToolErrorCaught(kind) == IsException(kind)

\* line 172: the for loop goes on to the next call whatever the last one did
NextToolIndexBreak(i, n, failed) == IF failed THEN n + 1 ELSE i + 1
NextToolIndex(i, n, failed) == i + 1

\* lines 171-183, one iteration
DispatchTool(r) ==
    /\ req[r].pc = "tools"
    /\ req[r].response.hasCalls
    /\ req[r].callIdx <= Len(req[r].response.calls)
    /\ UNCHANGED fs
    /\ LET i == req[r].callIdx
           call == req[r].response.calls[i]
           result == ToolOutcome(call)
           entry == [idx |-> i, name |-> call.name, result |-> result]
       IN  IF result = "failed" /\ ~ToolErrorCaught("Exception")
           THEN Set(r, [req[r] EXCEPT !.pc = "raised", !.raised = "Exception",
                                       !.toolLog = Append(@, entry)])
           ELSE Set(r, [req[r] EXCEPT
                    !.callIdx = NextToolIndex(i, Len(req[r].response.calls),
                                              result = "failed"),
                    !.toolLog = Append(@, entry)])

\* lines 171-172: no function_calls attribute, or the list is exhausted
ToolsDone(r) ==
    /\ req[r].pc = "tools"
    /\ \/ ~req[r].response.hasCalls
       \/ req[r].callIdx > Len(req[r].response.calls)
    /\ UNCHANGED fs
    /\ Set(r, [req[r] EXCEPT !.pc = "extract"])

\* ---------------------------------------------------------- code extraction
\* lines 186-194: [via, code]; via names the branch that yields the program
ExtractCodeWholeFirst(resp) ==
    LET full_text == IF resp.textAttr = "str" THEN resp.text ELSE <<>>
    IN  IF resp.textAttr = "absent" THEN [via |-> "none", code |-> <<>>]
        ELSE IF LooksLikeCode(full_text)
             THEN [via |-> "whole", code |-> Strip(full_text)]
        ELSE IF HasMatch(full_text)
             THEN [via |-> "fence", code |-> Strip(MatchGroup(full_text))]
        ELSE [via |-> "none", code |-> <<>>]
ExtractCode(resp) ==
    LET full_text == IF resp.textAttr = "str" THEN resp.text ELSE <<>>
    IN  IF resp.textAttr = "absent" THEN [via |-> "none", code |-> <<>>]
        ELSE IF HasMatch(full_text)
             THEN [via |-> "fence", code |-> Strip(MatchGroup(full_text))]
        ELSE IF LooksLikeCode(full_text)
             THEN [via |-> "whole", code |-> Strip(full_text)]
        ELSE [via |-> "none", code |-> <<>>]

Extract(r) ==
    /\ req[r].pc = "extract"
    /\ UNCHANGED fs
    /\ LET x == ExtractCode(req[r].response)
       IN  IF x.via # "none"
           THEN Set(r, [req[r] EXCEPT !.pc = "write", !.via = x.via,
                                       !.code = x.code])
           ELSE Set(r, [req[r] EXCEPT !.pc = "returned", !.via = "none",
                                       !.payload = NoCodePayload])

\* ------------------------------------------- run_code_and_capture_output
\* line 97: timeout=60
TimedOutNever(dur) == FALSE
TimedOut(dur) == dur > Timeout

\* line 108: except Exception around the in-process exec
RepairErrorCaught(kind) == IsException(kind)

\* line 99: stdout followed by stderr
CapturedOutput(b) == b.stdout \o b.stderr

\* line 122: output.strip() or the placeholder
ResultText(output) ==
    IF Strip(output) = <<>> THEN <<MsgNoOutput>> ELSE Strip(output)

\* lines 86-92: write the program to temp_code.py
WriteCode(r) ==
    /\ req[r].pc = "write"
    /\ \E ok \in BOOLEAN :
         IF ok
         THEN /\ fs' = [fs EXCEPT !.temp_code = File(r, req[r].code)]
              /\ Set(r, [req[r] EXCEPT !.pc = "spawn"])
         ELSE /\ UNCHANGED fs
              /\ Set(r, [req[r] EXCEPT !.pc = "returned",
                                        !.payload = WriteFailedPayload])

\* lines 94-99, 127-132: the child process runs whatever temp_code.py holds
\* when it starts
RunChild(r, behaviours) ==
    /\ req[r].pc = "spawn"
    /\ \/ /\ UNCHANGED fs
          /\ Set(r, [req[r] EXCEPT !.pc = "returned",
                                    !.payload = ExecFailedPayload])
       \/ \E b \in behaviours :
            /\ fs' = [fs EXCEPT !.scatterplot =
                        IF b.plot = "file" THEN File(r, fs.temp_code.content)
                        ELSE @]
            /\ IF TimedOut(b.dur)
               THEN Set(r, [req[r] EXCEPT !.pc = "returned", !.beh = b,
                                           !.ran = fs.temp_code,
                                           !.execs = Append(@, "child"),
                                           !.payload = TimeoutPayload])
               ELSE Set(r, [req[r] EXCEPT !.pc = "repair", !.beh = b,
                                           !.ran = fs.temp_code,
                                           !.execs = Append(@, "child"),
                                           !.output = CapturedOutput(b)])

\* lines 101-109: exec(code, ...) in the serving process, then the rename of
\* the tables it left.  The exec has no time limit: a program that does not
\* terminate on this run leaves the call inside exec for good.
Repair(r, inprocs) ==
    /\ req[r].pc = "repair"
    /\ \E o \in inprocs :
         /\ fs' = [fs EXCEPT !.scatterplot =
                     IF o.draws = "file" THEN File(r, req[r].code) ELSE @]
         /\ LET fig == IF o.draws = "none" THEN req[r].figure ELSE r
            IN  IF o.end = "hangs"
                THEN Set(r, [req[r] EXCEPT !.pc = "exec_running",
                                            !.execs = Append(@, "inproc"),
                                            !.figure = fig])
                ELSE IF o.end \in ExceptionKinds /\ ~RepairErrorCaught(o.end)
                THEN Set(r, [req[r] EXCEPT !.pc = "raised", !.raised = o.end,
                                            !.execs = Append(@, "inproc"),
                                            !.figure = fig])
                ELSE Set(r, [req[r] EXCEPT !.pc = "capture",
                                            !.execs = Append(@, "inproc"),
                                            !.figure = fig])

\* lines 111-125: read scatterplot.png or save the current figure, then
\* assemble the blocks
CaptureAndReturn(r) ==
    /\ req[r].pc = "capture"
    /\ UNCHANGED fs
    /\ \E ok \in BOOLEAN :
         LET img == IF ~ok THEN <<>>
                    ELSE IF fs.scatterplot.exists
                         THEN <<"file", fs.scatterplot.owner>>
                    ELSE <<"figure", req[r].figure>>
             blocks == <<TextBlock(ResultText(req[r].output))>>
                       \o (IF img = <<>> THEN <<>> ELSE <<ImageBlock(img)>>)
         IN  Set(r, [req[r] EXCEPT !.pc = "returned", !.image = img,
                                    !.payload = blocks])

\* ------------------------------------------------------------------ app.root
Filenames == {"questions.txt", "Question.TXT", "data.csv"}
\* str.lower() on the uploaded file name
LowerIdentity(name) == name
Lower(name) == IF name = "Question.TXT" THEN "question.txt" ELSE name
IsQuestionsName(name) == Lower(name) \in {"questions.txt", "question.txt"}
MissingQuestionBody == <<"error", "questions.txt is required">>

\* lines 47-59: mkdtemp and the saving of the uploads
RootSaveUploads(r) ==
    /\ req[r].pc = "idle"
    /\ fs' = [fs EXCEPT !.workdirs = @ \cup {r}]
    /\ \E files \in SUBSET Filenames :
         Set(r, [req[r] EXCEPT !.pc = "root_check", !.entry = "root",
                                !.uploads = files])

\* lines 61-65, 93-94: no questions file: 400, the finally removes workdir
RootMissingQuestion(r) ==
    /\ req[r].pc = "root_check"
    /\ ~\E f \in req[r].uploads : IsQuestionsName(f)
    /\ fs' = [fs EXCEPT !.workdirs = @ \ {r}]
    /\ Set(r, [req[r] EXCEPT !.pc = "responded", !.status = 400,
                              !.body = MissingQuestionBody])

\* lines 67-78, 93-94: analyze(file_paths, questions_text, return_code=True)
\* against def analyze(questions_file, all_files): the call raises TypeError
\* before analyze runs; the finally removes workdir
RootCallAnalyze(r) ==
    /\ req[r].pc = "root_check"
    /\ \E f \in req[r].uploads : IsQuestionsName(f)
    /\ fs' = [fs EXCEPT !.workdirs = @ \ {r}]
    /\ Set(r, [req[r] EXCEPT !.pc = "raised", !.raised = "TypeError"])

\* --------------------------------------------- analyzer.rename_film_column
\* column labels; 2020 stands for an integer label, which has no lower()
ColumnNames == {"Film", "film", "Title", "title", "Year", "2020"}
IsStrLabel(c) == c # "2020"
ColLower(c) ==
    IF c \in {"Film", "film"} THEN "film"
    ELSE IF c \in {"Title", "title"} THEN "title"
    ELSE "year"

\* line 63: {c.lower(): c for c in df.columns}: the last column of a lowered
\* name is the one kept
ColsLower(cols, low) ==
    cols[SetMax({i \in 1..Len(cols) : ColLower(cols[i]) = low})]
InColsLower(cols, low) == \E i \in 1..Len(cols) : ColLower(cols[i]) = low

\* df.rename(columns={old: new}, inplace=True)
RenameColumn(cols, old, new) ==
    [i \in 1..Len(cols) |-> IF cols[i] = old THEN new ELSE cols[i]]

\* lines 61-70
rename_film_column(cols) ==
    IF \E i \in 1..Len(cols) : ~IsStrLabel(cols[i]) THEN cols
    ELSE IF InColsLower(cols, "film")
         THEN RenameColumn(cols, ColsLower(cols, "film"), "Title")
    ELSE IF InColsLower(cols, "title")
         THEN RenameColumn(cols, ColsLower(cols, "title"), "Film")
    ELSE cols

\* lines 104-106: once for every local name bound to the DataFrame
ApplyRename ==
    /\ Len(tables) \in {1, 2}
    /\ tables' = Append(tables, rename_film_column(tables[Len(tables)]))
    /\ UNCHANGED <<req, fs, coerce, sanit>>

\* ------------------------------------------- analyzer.sanitize_tool_params
\* lines 50-53: the wrong key and the correct key of a tool
HasFix(tool_name) == tool_name \in {"scrape_website", "get_relevant_data"}
WrongKey(tool_name) == "file"
CorrectKey(tool_name) ==
    IF tool_name = "scrape_website" THEN "output_file" ELSE "file_name"

\* params[correct] = params.pop(wrong)
MoveKey(params, wrong, correct) ==
    [k \in (DOMAIN params \ {wrong}) \cup {correct} |->
        IF k = correct THEN params[wrong] ELSE params[k]]

\* lines 54-58
ShouldMoveOverwriting(params, wrong, correct) == wrong \in DOMAIN params
ShouldMove(params, wrong, correct) ==
    wrong \in DOMAIN params /\ correct \notin DOMAIN params
sanitize_tool_params(tool_name, params) ==
    IF HasFix(tool_name)
         /\ ShouldMove(params, WrongKey(tool_name), CorrectKey(tool_name))
    THEN MoveKey(params, WrongKey(tool_name), CorrectKey(tool_name))
    ELSE params

ApplySanitize ==
    /\ Len(sanit) \in {1, 2}
    /\ sanit' = Append(sanit,
          [name |-> sanit[1].name,
           params |-> sanitize_tool_params(sanit[1].name, sanit[Len(sanit)].params)])
    /\ UNCHANGED <<req, fs, coerce, tables>>

\* ------------------------------------------------- app.root, the response
\* A value of the analyzer's result: kind, a number, a text, the items.
Value(kind, num, text, items) ==
    [kind |-> kind, num |-> num, text |-> text, items |-> items]
JsonScalarKinds == {"int", "float", "str", "null"}

\* ndarray.tolist(): numpy scalars become Python numbers
ToList(items) ==
    [i \in DOMAIN items |->
        IF items[i].kind = "np_int" THEN Value("int", items[i].num, "", <<>>)
        ELSE IF items[i].kind = "np_float" THEN Value("float", items[i].num, "", <<>>)
        ELSE items[i]]

\* app.py lines 28-36
_json_default(obj) ==
    IF obj.kind = "np_int" THEN Value("int", obj.num, "", <<>>)
    ELSE IF obj.kind = "np_float" THEN Value("float", obj.num, "", <<>>)
    ELSE IF obj.kind = "ndarray" THEN Value("list", 0, "", ToList(obj.items))
    ELSE Value("str", obj.num, IF obj.text = "" THEN obj.kind ELSE obj.text, <<>>)

\* json.dumps(..., default=_json_default), line 89: the encoder hands to the
\* hook only what it cannot serialize itself
NeedsDefaultAlways(v) == TRUE
NeedsDefault(v) == v.kind \notin JsonScalarKinds \cup {"list"}

\* lines 84-91: the body as a tree of JSON values
RECURSIVE JsonDumps(_)
JsonDumps(v) ==
    IF v.kind = "list"
    THEN [v EXCEPT !.items = [i \in DOMAIN v.items |-> JsonDumps(v.items[i])]]
    ELSE IF NeedsDefault(v)
         THEN LET d == _json_default(v)
              IN  IF d.kind = "list" THEN JsonDumps(d) ELSE d
    ELSE v

ApplyCoercion ==
    /\ Len(coerce) \in {1, 2}
    /\ coerce' = Append(coerce, JsonDumps(coerce[Len(coerce)]))
    /\ UNCHANGED <<req, fs, sanit, tables>>

\* ------------------------------------------------------------------ inputs
Nums == {1, 2}
ResultScalars ==
    {Value(k, n, "", <<>>) : k \in {"int", "float", "np_int", "np_float"}, n \in Nums}
    \cup {Value("str", 0, "Titanic", <<>>), Value("object", 0, "Timestamp", <<>>),
          Value("null", 0, "", <<>>)}
ResultArrays ==
    {Value("ndarray", 0, "", a) :
        a \in UNION {SeqsUpTo({Value(k, n, "", <<>>) : n \in Nums}, MaxItems) :
                        k \in {"np_int", "np_float"}}}
ParamKeys == {"url", "output_file", "file_name", "file", "js_selector"}
ParamValues == {"a.csv", "b.csv"}
ParamDicts == UNION {[D -> ParamValues] : D \in SUBSET ParamKeys}

ResultPayloads ==
    {Value("list", 0, "", l) : l \in SeqsUpTo(ResultScalars \cup ResultArrays, MaxItems)}

AllTexts == SeqsUpTo(Tokens, MaxTextLen)
RepTexts == {<<"FP", "nl", "w", "nl", "F">>, <<"imp", "w", "nl">>, <<"w">>}
AllCallLists == SeqsUpTo(ToolCalls, MaxCalls)
RepCallLists ==
    {<<>>,
     <<[name |-> "scrape_website", fault |-> "bad_params"],
       [name |-> "get_relevant_data", fault |-> "none"]>>}

Responses(texts, callLists) ==
    LET bodies == {[textAttr |-> "str", text |-> t] : t \in texts}
                  \cup {[textAttr |-> a, text |-> <<>>] : a \in {"absent", "none"}}
        lists == {[hasCalls |-> FALSE, calls |-> <<>>]}
                 \cup {[hasCalls |-> TRUE, calls |-> c] : c \in callLists}
    IN  {[textAttr |-> b.textAttr, text |-> b.text,
          hasCalls |-> l.hasCalls, calls |-> l.calls] : b \in bodies, l \in lists}

Stdouts == {<<>>, <<"json", "nl">>, <<"text", "nl">>}
Stderrs == {<<>>, <<"trace", "nl">>}
Durations == {1, Timeout, Timeout + 1}
\* result.returncode, which the code never reads
ExitCodes == {0, 1}
AllBehaviours ==
    [dur : Durations, stdout : Stdouts, stderr : Stderrs, plot : {"none", "file"},
     rc : ExitCodes]
RepBehaviours ==
    {[dur |-> 1, stdout |-> <<"json", "nl">>, stderr |-> <<>>, plot |-> "file",
      rc |-> 0],
     [dur |-> 1, stdout |-> <<>>, stderr |-> <<"trace", "nl">>, plot |-> "none",
      rc |-> 1],
     [dur |-> Timeout + 1, stdout |-> <<>>, stderr |-> <<>>, plot |-> "none",
      rc |-> 0]}
AllInprocs ==
    [end : {"ok_tables", "ok_no_tables", "Exception", "SystemExit", "hangs"},
     draws : {"none", "figure", "file"}]
RepInprocs ==
    {[end |-> "ok_tables", draws |-> "file"],
     [end |-> "Exception", draws |-> "none"],
     [end |-> "SystemExit", draws |-> "none"]}

\* ---------------------------------------------------------- specifications
Step(r, responses, behaviours, inprocs) ==
    \/ AnalyzeReadQuestions(r)
    \/ QueryOk(r, responses)
    \/ QueryFails(r)
    \/ SaveResponse(r)
    \/ DispatchTool(r)
    \/ ToolsDone(r)
    \/ Extract(r)
    \/ WriteCode(r)
    \/ RunChild(r, behaviours)
    \/ Repair(r, inprocs)
    \/ CaptureAndReturn(r)
    \/ RootSaveUploads(r)
    \/ RootMissingQuestion(r)
    \/ RootCallAnalyze(r)

\* one call at a time, every execution behaviour of the generated program
Next == Step("r1", Responses(RepTexts, RepCallLists), AllBehaviours, AllInprocs)
Spec == Init /\ [][Next]_vars
\* the same, with every step that can be taken eventually taken
LiveSpec == Spec /\ WF_vars(Next)

\* one call at a time, every response text up to MaxTextLen tokens
ExtractNext ==
    Step("r1", Responses(AllTexts \cup RepTexts, RepCallLists), RepBehaviours, RepInprocs)
ExtractSpec == Init /\ [][ExtractNext]_vars

\* one call at a time, every list of up to MaxCalls tool calls
ToolNext == Step("r1", Responses(RepTexts, AllCallLists), RepBehaviours, RepInprocs)
ToolSpec == Init /\ [][ToolNext]_vars

\* two worker processes sharing the working directory
ConcNext ==
    \E r \in Reqs : Step(r, Responses(RepTexts, RepCallLists), RepBehaviours, RepInprocs)
ConcSpec == Init /\ [][ConcNext]_vars

\* one request after the other in the same working directory: the second
\* call starts when the first has ended
SeqNext ==
    \/ Step("r1", Responses(RepTexts, RepCallLists), RepBehaviours, AllInprocs)
    \/ /\ req["r1"].pc \in {"returned", "responded", "raised"}
       /\ Step("r2", Responses(RepTexts, RepCallLists), RepBehaviours, AllInprocs)
SeqSpec == Init /\ [][SeqNext]_vars

\* json.dumps(results, default=_json_default) on every bounded result
CoerceInit ==
    /\ req = [r \in Reqs |-> InitReq]
    /\ fs = [temp_code |-> File("repo", <<"imp", "w">>), gpt_response |-> NoFile,
             scatterplot |-> NoFile, workdirs |-> {}]
    /\ coerce \in {<<v>> : v \in ResultPayloads}
    /\ sanit = <<>>
    /\ tables = <<>>
CoerceNext == ApplyCoercion
CoerceSpec == CoerceInit /\ [][CoerceNext]_vars

\* sanitize_tool_params on every bounded call
SanitizeInit ==
    /\ req = [r \in Reqs |-> InitReq]
    /\ fs = [temp_code |-> File("repo", <<"imp", "w">>), gpt_response |-> NoFile,
             scatterplot |-> NoFile, workdirs |-> {}]
    /\ coerce = <<>>
    /\ sanit \in {<<[name |-> n, params |-> p]>> : n \in ToolNames, p \in ParamDicts}
    /\ tables = <<>>
SanitizeNext == ApplySanitize
SanitizeSpec == SanitizeInit /\ [][SanitizeNext]_vars

\* rename_film_column on every table of up to MaxCols columns
RenameInit ==
    /\ req = [r \in Reqs |-> InitReq]
    /\ fs = [temp_code |-> File("repo", <<"imp", "w">>), gpt_response |-> NoFile,
             scatterplot |-> NoFile, workdirs |-> {}]
    /\ coerce = <<>>
    /\ sanit = <<>>
    /\ tables \in {<<t>> : t \in SeqsUpTo(ColumnNames, MaxCols)}
RenameNext == ApplyRename
RenameSpec == RenameInit /\ [][RenameNext]_vars

\* ------------------------------------------------------------------ claims
Last(s) == s[Len(s)]
QueryDone(r) == req[r].queries # <<>> /\ Last(req[r].queries) = "ok"
Finished(r) == req[r].pc \in {"returned", "responded", "raised"}

\* C1: query_gemini is issued at most twice in a run of analyze, and a second
\* query follows only a first one that failed with StopCandidateException.
C1_AtMostOneRetry ==
    \A r \in Reqs :
        /\ Len(req[r].queries) <= 2
        /\ Len(req[r].queries) = 2 => req[r].queries[1] = "StopCandidateException"
        /\ \A i \in 1..Len(req[r].queries) :
             req[r].queries[i] # "StopCandidateException" => i = Len(req[r].queries)

C1_Witness ==
    \E r \in Reqs :
        /\ Len(req[r].queries) = 2
        /\ req[r].queries[1] = "StopCandidateException"
        /\ req[r].amended

\* C2: when synthesis fails (any error other than the first malformed-tool-call
\* signal), analyze returns an error payload naming the failure; no tool call
\* is dispatched, no program is extracted, written or executed, and nothing is
\* raised.
SynthesisFailed(r) ==
    /\ req[r].queries # <<>>
    /\ Last(req[r].queries) # "ok"
    /\ ~(req[r].queries = <<"StopCandidateException">> /\ req[r].pc = "query")

C2_SynthesisFailureIsTerminal ==
    \A r \in Reqs :
        SynthesisFailed(r) =>
            /\ req[r].pc = "returned"
            /\ req[r].raised = "none"
            /\ req[r].payload =
                 IF req[r].queries = <<"StopCandidateException", "StopCandidateException">>
                 THEN <<TextBlock(<<MsgMalformedTwice>>)>>
                 ELSE <<TextBlock(<<MsgQueryFailed, "transport error">>)>>
            /\ req[r].toolLog = <<>>
            /\ req[r].via = "pending"
            /\ req[r].execs = <<>>
            /\ fs.temp_code.owner # r

C2_Witness ==
    \E r \in Reqs :
        /\ req[r].queries = <<"StopCandidateException", "Exception">>
        /\ req[r].pc = "returned"

\* C3: the script a request's child process runs is the program extracted for
\* that request, and a plot file it reads back was written by that request.
C3_RequestIsolation ==
    \A r \in Reqs :
        /\ "child" \in {req[r].execs[i] : i \in 1..Len(req[r].execs)} =>
             /\ req[r].ran.exists
             /\ req[r].ran.content = req[r].code
        /\ (req[r].image # <<>> /\ req[r].image[1] = "file") => req[r].image[2] = r

\* C4: a child that runs longer than the 60 second budget gives the timeout
\* payload, which is no generic execution-error payload; nothing is raised
\* and the in-process re-execution is not started.
C4_TimeoutClassified ==
    \A r \in Reqs :
        (req[r].execs # <<>> /\ req[r].beh.dur > 60) =>
            /\ req[r].pc = "returned"
            /\ req[r].raised = "none"
            /\ req[r].payload = <<TextBlock(<<MsgTimeout>>)>>
            /\ req[r].payload[1].output[1] # MsgExecFailed
            /\ req[r].execs = <<"child">>

C4_Witness ==
    \E r \in Reqs :
        /\ req[r].execs = <<"child">>
        /\ req[r].beh.dur > 60
        /\ req[r].pc = "returned"

\* C5: once a request has finished, none of the files created for it exists:
\* upload directory, temp_code.py, gpt_response.json, plot image.
C5_NoFilesLeft ==
    \A r \in Reqs :
        Finished(r) =>
            /\ r \notin fs.workdirs
            /\ ~(fs.temp_code.exists /\ fs.temp_code.owner = r)
            /\ ~(fs.gpt_response.exists /\ fs.gpt_response.owner = r)
            /\ ~(fs.scatterplot.exists /\ fs.scatterplot.owner = r)

\* the response text the extraction step looks at
FullText(r) ==
    IF req[r].response.textAttr = "str" THEN req[r].response.text ELSE <<>>
Extracted(r) == QueryDone(r) /\ req[r].via # "pending"
IsSubstring(text, tokens) == \E i \in 1..Len(text) : text[i] \in tokens

\* a fence of the text: an opening ```python before every other opening, and
\* the nearest ``` after it
IsFirstFence(text, i, j) ==
    /\ i < j
    /\ text[i] = "FP"
    /\ text[j] \in {"F", "FP"}
    /\ \A k \in 1..(i - 1) : text[k] # "FP"
    /\ \A k \in (i + 1)..(j - 1) : text[k] \notin {"F", "FP"}
NoFence(text) ==
    ~\E i, j \in 1..Len(text) : i < j /\ text[i] = "FP" /\ text[j] \in {"F", "FP"}

\* the text holds exactly one fenced block: one ```python, one closing ```
SingleFencedBlock(text, i, j) ==
    /\ i < j
    /\ text[i] = "FP"
    /\ text[j] = "F"
    /\ \A k \in 1..Len(text) : text[k] \in {"F", "FP"} => k \in {i, j}

\* C6 as stated: a single fenced block gives exactly its contents; the whole
\* response is the program only when there is no fenced block and the text
\* holds an import statement or a definition keyword; otherwise no program.
C6_ExtractionOrder ==
    \A r \in Reqs :
        Extracted(r) =>
            LET text == FullText(r)
            IN  /\ \A i, j \in 1..Len(text) :
                     SingleFencedBlock(text, i, j) =>
                         /\ req[r].via = "fence"
                         /\ req[r].code = SubSeq(text, i + 1, j - 1)
                /\ req[r].via = "whole" =>
                     /\ NoFence(text)
                     /\ IsSubstring(text, {"imp", "def"})
                     /\ req[r].code = text
                /\ (NoFence(text) /\ ~IsSubstring(text, {"imp", "def"})) =>
                     /\ req[r].via = "none"
                     /\ req[r].payload = <<TextBlock(<<MsgNoCode>>)>>

\* C6 amended: when an opening ```python is followed by a ```, the program is
\* the text between the first such opening and the nearest ``` after it, with
\* surrounding white space stripped and no fence marker in it; the whole
\* response, stripped, is the program only when there is no such block and the
\* text contains the substring "import" or "def "; otherwise no program.
C6_ExtractionOrderAmended ==
    \A r \in Reqs :
        Extracted(r) =>
            LET text == FullText(r)
            IN  /\ \A i, j \in 1..Len(text) :
                     IsFirstFence(text, i, j) =>
                         /\ req[r].via = "fence"
                         /\ req[r].code = Strip(SubSeq(text, i + 1, j - 1))
                         /\ ~IsSubstring(req[r].code, {"F", "FP"})
                /\ req[r].via = "whole" =>
                     /\ NoFence(text)
                     /\ IsSubstring(text, {"imp", "impt", "def"})
                     /\ req[r].code = Strip(text)
                /\ (NoFence(text) /\ ~IsSubstring(text, {"imp", "impt", "def"})) =>
                     /\ req[r].via = "none"
                     /\ req[r].payload = <<TextBlock(<<MsgNoCode>>)>>
                /\ req[r].via = "none" => req[r].pc = "returned"

C6_Witness ==
    \E r \in Reqs :
        /\ Extracted(r)
        /\ req[r].via = "fence"
        /\ \E i, j \in 1..Len(FullText(r)) : SingleFencedBlock(FullText(r), i, j)
        /\ req[r].code = <<"w">>
        /\ Len(FullText(r)) > 3
        /\ req[r].pc = "spawn"

\* C7 as stated: a response with no fenced code block ends with the fallback
\* payload; no script is written, no child spawned, no response text executed.
C7_NoFenceFallback ==
    \A r \in Reqs :
        (Extracted(r) /\ ~IsSubstring(FullText(r), {"F", "FP"})) =>
            /\ req[r].pc = "returned"
            /\ req[r].raised = "none"
            /\ req[r].payload = <<TextBlock(<<MsgNoCode>>)>>
            /\ req[r].execs = <<>>
            /\ fs.temp_code.owner # r

\* C7 amended: a response with no fenced code block that contains neither
\* "import" nor "def " ends with the fallback payload; no script is written,
\* no child spawned, no response text executed.
C7_NoFenceFallbackAmended ==
    \A r \in Reqs :
        (Extracted(r) /\ NoFence(FullText(r))
           /\ ~IsSubstring(FullText(r), {"imp", "impt", "def"})) =>
            /\ req[r].pc = "returned"
            /\ req[r].raised = "none"
            /\ req[r].payload = <<TextBlock(<<MsgNoCode>>)>>
            /\ req[r].execs = <<>>
            /\ fs.temp_code.owner # r

C7_Witness ==
    \E r \in Reqs :
        /\ Extracted(r)
        /\ req[r].response.textAttr = "str"
        /\ FullText(r) # <<>>
        /\ ~IsSubstring(FullText(r), {"F", "FP", "imp", "impt", "def"})
        /\ req[r].pc = "returned"

\* C8: whatever a tool call of the response does, every call of the list (an
\* absent list counts as empty) is attempted, in order, and analyze goes on to
\* code extraction without raising.
C8_ToolFailuresIsolated ==
    \A r \in Reqs :
        QueryDone(r) =>
            LET calls == req[r].response.calls
                log == req[r].toolLog
            IN  /\ Len(log) <= Len(calls)
                /\ \A i \in 1..Len(log) :
                     log[i].idx = i /\ log[i].name = calls[i].name
                /\ req[r].pc \notin {"save", "tools"} =>
                     /\ Len(log) = Len(calls)
                     /\ req[r].via # "pending" \/ req[r].pc = "extract"
                /\ req[r].pc = "raised" => req[r].execs # <<>>

C8_Witness ==
    \E r \in Reqs :
        /\ req[r].pc = "extract"
        /\ Len(req[r].response.calls) = 2
        /\ Len(req[r].toolLog) = 2
        /\ req[r].toolLog[1].result = "failed"

\* C9: the in-process re-execution never raises and never changes the result:
\* whatever the re-executed program does, the call returns and its text block
\* is the output captured from the child.
C9_RepairNeverRaises ==
    \A r \in Reqs :
        "inproc" \in {req[r].execs[i] : i \in 1..Len(req[r].execs)} =>
            /\ req[r].raised = "none"
            /\ req[r].pc \in {"capture", "returned"}
            /\ req[r].pc = "returned" =>
                 req[r].payload[1] =
                     TextBlock(ResultText(req[r].beh.stdout \o req[r].beh.stderr))

\* C10: the program is re-executed in-process only when the child's standard
\* output is no valid JSON; with valid JSON on standard output the program
\* runs exactly once in the request.
C10_RepairOnlyOnParseFailure ==
    \A r \in Reqs :
        /\ "inproc" \in {req[r].execs[i] : i \in 1..Len(req[r].execs)} =>
             req[r].beh.stdout # <<"json", "nl">>
        /\ (req[r].pc = "returned" /\ req[r].execs # <<>>
              /\ req[r].beh.stdout = <<"json", "nl">>) =>
             req[r].execs = <<"child">>

\* C11: a generated program that raises or exits non-zero makes neither
\* run_code_and_capture_output nor analyze raise; the failure comes back inside
\* the payload and the call completes.
C11_ProgramFailureReturned ==
    \A r \in Reqs :
        (req[r].execs # <<>> /\ req[r].beh.rc # 0 /\ req[r].beh.dur <= 60) =>
            /\ req[r].raised = "none"
            /\ req[r].pc = "returned" =>
                 /\ req[r].payload # <<>>
                 /\ req[r].payload[1] = TextBlock(ResultText(req[r].output))

\* C12: once the model's response is received analyze eventually returns (or
\* at least ends), whatever the generated program does.
C12_AnalyzeReturns == \A r \in Reqs : QueryDone(r) ~> Finished(r)

\* C13: for every request that includes a question file the handler completes
\* with a body built from the analyzer's result: the call into analyze and the
\* handling of its return value end in no unhandled fault.
C13_HandlerCompletes ==
    \A r \in Reqs :
        (req[r].entry = "root" /\ req[r].pc # "root_check"
           /\ req[r].uploads \cap {"questions.txt", "Question.TXT"} # {}) =>
            /\ req[r].raised = "none"
            /\ req[r].pc = "responded"
            /\ req[r].status = 200

\* C14: when no upload is named questions.txt or question.txt, compared
\* case-insensitively, the handler answers 400 with {error: message}, never
\* calls the analyzer and still deletes the upload directory; an upload so
\* named is never answered that way.
C14_MissingQuestionRejected ==
    \A r \in Reqs :
        (req[r].entry = "root" /\ req[r].pc # "root_check") =>
            IF req[r].uploads \cap {"questions.txt", "Question.TXT"} = {}
            THEN /\ req[r].pc = "responded"
                 /\ req[r].status = 400
                 /\ req[r].body = <<"error", "questions.txt is required">>
                 /\ req[r].raised = "none"
                 /\ req[r].queries = <<>>
                 /\ req[r].execs = <<>>
                 /\ r \notin fs.workdirs
            ELSE req[r].status # 400 /\ req[r].body = <<>>

C14_Witness ==
    \E r \in Reqs :
        /\ req[r].entry = "root"
        /\ req[r].uploads = {"data.csv"}
        /\ req[r].pc = "responded"
        /\ req[r].status = 400

\* C15: the child's standard error appears in the payload only when its
\* standard output is empty: with output on standard output the text block
\* holds standard output alone.
C15_StderrOnlyWhenStdoutEmpty ==
    \A r \in Reqs :
        (req[r].pc = "returned" /\ Len(req[r].execs) = 2
           /\ req[r].beh.stdout # <<>>) =>
            /\ req[r].payload[1].output = Strip(req[r].beh.stdout)
            /\ ~IsSubstring(req[r].payload[1].output, {"trace"})

\* C16: whenever analyze returns, the payload is a non-empty list of blocks,
\* each of type text or image with a string output; the first is a text block
\* and at most one is an image block.
C16_PayloadWellFormed ==
    \A r \in Reqs :
        (req[r].entry = "analyze" /\ req[r].pc = "returned") =>
            LET blocks == req[r].payload
                images == {i \in 1..Len(blocks) : blocks[i].type = "image"}
            IN  /\ Len(blocks) >= 1
                /\ blocks[1].type = "text"
                /\ \A i \in 1..Len(blocks) :
                     /\ blocks[i].type \in {"text", "image"}
                     /\ DOMAIN blocks[i] = {"type", "output"}
                     /\ blocks[i].output # <<>>
                     /\ \A k \in 1..Len(blocks[i].output) :
                          blocks[i].output[k] \in STRING
                /\ Cardinality(images) <= 1

C16_Witness ==
    \E r \in Reqs :
        /\ req[r].entry = "analyze"
        /\ req[r].pc = "returned"
        /\ Len(req[r].payload) = 2
        /\ req[r].payload[2].type = "image"

\* C17: the coercion step is idempotent: applied to a payload that has
\* already been coerced it yields the same payload.
C17_CoercionIdempotent ==
    Len(coerce) = 3 => coerce[3] = coerce[2]

C17_Witness ==
    /\ Len(coerce) = 3
    /\ coerce[2] # coerce[1]
    /\ \E i \in 1..Len(coerce[1].items) : coerce[1].items[i].kind = "ndarray"
    /\ \E i \in 1..Len(coerce[1].items) : coerce[1].items[i].kind = "object"

\* C18 as stated: after sanitize_tool_params the parameters of a registered
\* tool never contain the typo key 'file'; its value is under the correct
\* key, the rest is unchanged, an unknown tool's parameters are unchanged, and
\* a second application changes nothing.
C18_TypoKeyRepaired ==
    Len(sanit) >= 2 =>
        LET t == sanit[1].name
            p == sanit[1].params
            q == sanit[2].params
        IN  /\ HasFix(t) => "file" \notin DOMAIN q
            /\ ~HasFix(t) => q = p
            /\ \A k \in DOMAIN p \ {"file", "output_file", "file_name"} :
                    k \in DOMAIN q /\ q[k] = p[k]
            /\ Len(sanit) = 3 => sanit[3].params = q

\* C18 amended: the value under 'file' is moved to the correct key
\* (output_file for scrape_website, file_name for get_relevant_data) exactly
\* when the correct key is absent; when both keys are present, or the tool is
\* unknown, the parameters are returned unchanged, typo key included. Every
\* other key and value is unchanged and a second application changes nothing.
C18_TypoKeyRepairedAmended ==
    Len(sanit) >= 2 =>
        LET t == sanit[1].name
            p == sanit[1].params
            q == sanit[2].params
            c == IF t = "scrape_website" THEN "output_file" ELSE "file_name"
        IN  /\ IF t \in {"scrape_website", "get_relevant_data"}
                    /\ "file" \in DOMAIN p /\ c \notin DOMAIN p
               THEN /\ DOMAIN q = (DOMAIN p \ {"file"}) \cup {c}
                    /\ q[c] = p["file"]
                    /\ \A k \in DOMAIN p \ {"file"} : q[k] = p[k]
               ELSE q = p
            /\ Len(sanit) = 3 => sanit[3].params = q

C18_Witness ==
    /\ Len(sanit) = 3
    /\ sanit[1].name = "get_relevant_data"
    /\ DOMAIN sanit[1].params = {"file", "js_selector"}
    /\ DOMAIN sanit[2].params = {"file_name", "js_selector"}
    /\ sanit[2].params["file_name"] = sanit[1].params["file"]

C20_OneProgramAfterTools ==
    \A r \in Reqs :
        LET text == FullText(r)
            children == {i \in 1..Len(req[r].execs) : req[r].execs[i] = "child"}
        IN  /\ Cardinality(children) <= 1
            /\ req[r].via \in {"fence", "whole"} =>
                 /\ QueryDone(r)
                 /\ Len(req[r].toolLog) = Len(req[r].response.calls)
            /\ req[r].execs # <<>> =>
                 /\ req[r].via \in {"fence", "whole"}
                 /\ req[r].ran.content = req[r].code
                 /\ \A i, j \in 1..Len(text) :
                      IsFirstFence(text, i, j) =>
                          /\ req[r].via = "fence"
                          /\ req[r].ran.content = Strip(SubSeq(text, i + 1, j - 1))
                          /\ req[r].ran.content # Strip(text)

C20_Witness ==
    \E r \in Reqs :
        /\ req[r].pc = "returned"
        /\ req[r].execs # <<>>
        /\ req[r].via = "fence"
        /\ IsSubstring(req[r].ran.content, {"imp", "impt", "def"})
        /\ Len(req[r].toolLog) > 0

\* C21: over any sequence of requests, an image block of a response encodes
\* an image made by that request's own program, as a plot file or as a figure;
\* nothing left by an earlier request is attached, and a program that plots
\* nothing gets no image block.
C21_ImageIsOwn ==
    \A r \in Reqs :
        (req[r].pc = "returned" /\ Len(req[r].payload) = 2) =>
            /\ req[r].payload[2] = ImageBlock(req[r].image)
            /\ req[r].image \in {<<"file", r>>, <<"figure", r>>}

\* C22: rename_film_column is idempotent: a second application to a table
\* changes no column name, and a table with a film column has the column
\* Title after one application and after two.
C22_RenameIdempotent ==
    /\ Len(tables) = 3 => tables[3] = tables[2]
    /\ (/\ Len(tables) >= 2
        /\ \A k \in 1..Len(tables[1]) : IsStrLabel(tables[1][k])
        /\ \E j \in 1..Len(tables[1]) : tables[1][j] \in {"Film", "film"}) =>
            \E i \in 1..Len(tables[1]) : tables[Len(tables)][i] = "Title"

====
